---- MODULE Spec2Model ----
(***************************************************************************)
(* Model of the taskmanager Django application: the Project / Task store   *)
(* (tasks/models.py), the access-control resolver and the request handlers *)
(* (tasks/views.py), the routes (tasks/urls.py), the back-office deletions *)
(* (tasks/admin.py) and the start-up configuration                         *)
(* (taskmanager/settings.py).                                              *)
(*                                                                         *)
(* Primary keys are positive integers; 0 stands for Python's None / a NULL *)
(* foreign key.                                                            *)
(***************************************************************************)
EXTENDS Integers, Sequences, FiniteSets, TLC

VARIABLES
    users,          \* auth.User table: id -> identity record
    session,        \* id stored in the browser session by auth_login (0: none)
    projects,       \* Project table: id -> [name, manager, created_at]
    tasks,          \* Task table: id -> [title, project, assigned_to, status]
    nextProjectId,  \* auto-increment primary key of Project
    nextTaskId,     \* auto-increment primary key of Task
    resp,           \* outcome of the operation performed by the last step
    identity,       \* argument handed to get_user_flags when it is applied alone
    environ,        \* os.environ of the process
    settings,       \* the settings module once imported
    phase           \* "boot" -> "ready" -> "serving"

vars == <<users, session, projects, tasks, nextProjectId, nextTaskId, resp,
          identity, environ, settings, phase>>

store == <<users, projects, tasks, nextProjectId, nextTaskId>>
config == <<environ, settings, phase>>

----------------------------------------------------------------------------
(* Bounds *)

MaxUsers == 3
MaxProjects == 2
MaxTasks == 2
MaxClock == 1

None == 0

Range(s) == {s[i] : i \in DOMAIN s}

----------------------------------------------------------------------------
(* Identities *)

GroupNames == {"Admin", "Manager", "User"}

\* django.contrib.auth.models.AnonymousUser, what request.user is without a session
AnonymousUser ==
    [id |-> None, is_authenticated |-> FALSE, is_active |-> FALSE,
     is_staff |-> FALSE, is_superuser |-> FALSE, groups |-> {}]

\* Python's None handed to get_user_flags
NoUser == [absent |-> TRUE]

\* Every authenticated identity over GroupNames
AuthenticatedIdentities ==
    [id : {1}, is_authenticated : {TRUE}, is_active : BOOLEAN,
     is_staff : BOOLEAN, is_superuser : BOOLEAN, groups : SUBSET GroupNames]

Identities == AuthenticatedIdentities \cup {AnonymousUser, NoUser}

\* The accounts of the deployment: a plain user, a manager, an administrator
\* who is also a manager, a staff member, then superusers.
SeedUser(u) ==
    [id |-> u, is_authenticated |-> TRUE, is_active |-> TRUE,
     is_staff |-> (u = 4),
     is_superuser |-> (u >= 5),
     groups |-> CASE u = 2 -> {"Manager"}
                  [] u = 3 -> {"Admin", "Manager"}
                  [] OTHER -> {}]

UserIds == 1..MaxUsers

----------------------------------------------------------------------------
(* tasks/views.py: get_user_flags *)

\* get_user_flags with Manager membership taken for admin rights
get_user_flags_manager_is_admin(user) ==
    IF user = NoUser \/ ~user.is_authenticated
    THEN [is_admin |-> FALSE, is_manager |-> FALSE]
    ELSE [is_admin |-> user.is_superuser \/ user.is_staff
                       \/ "Admin" \in user.groups \/ "Manager" \in user.groups,
          is_manager |-> "Manager" \in user.groups]

\* get_user_flags(user)
get_user_flags(user) ==
    IF user = NoUser \/ ~user.is_authenticated
    THEN [is_admin |-> FALSE, is_manager |-> FALSE]
    ELSE [is_admin |-> user.is_superuser \/ user.is_staff \/ "Admin" \in user.groups,
          is_manager |-> "Manager" \in user.groups]

\* request.user as AuthenticationMiddleware resolves it from the session
request_user ==
    IF session \in DOMAIN users THEN users[session] ELSE AnonymousUser

----------------------------------------------------------------------------
(* Outcome records *)

NoFlags == [is_admin |-> FALSE, is_manager |-> FALSE]

Resp0 ==
    [view |-> "", user |-> None, method |-> "", status |-> "", target |-> "",
     msg |-> "", action |-> "", flags |-> NoFlags,
     projects |-> <<>>, project_tasks |-> <<>>,
     initial_manager |-> None, cleaned_manager |-> None, object |-> None,
     affected |-> [projects |-> {}, tasks |-> {}]]

----------------------------------------------------------------------------
(* tasks/models.py: the store *)

STATUS_CHOICES == {"todo", "in_progress", "done"}

\* Project(name, manager, created_at): description is free text no handler reads
Project(name, manager, created_at) ==
    [name |-> name, manager |-> manager, created_at |-> created_at]

\* Task(title, project, assigned_to, status): status takes the field's default
Task(title, project, assigned_to) ==
    [title |-> title, project |-> project, assigned_to |-> assigned_to,
     status |-> "todo"]

\* project.tasks.all(): the reverse side of Task.project (related_name='tasks')
project_tasks_all(p) == {t \in DOMAIN tasks : tasks[t].project = p}

\* Task.project without the cascade
cascade_none(p) == {}

\* Task.project, on_delete=models.CASCADE: the tasks removed with project p
cascade_tasks(p) == {t \in DOMAIN tasks : tasks[t].project = p}

\* Task.assigned_to with on_delete=models.CASCADE in place of SET_NULL
set_null_as_cascade(u) == {t \in DOMAIN tasks : tasks[t].assigned_to # u}

\* on_delete=models.SET_NULL on Task.assigned_to: the tasks kept when user u goes
tasks_kept_on_user_delete(u) == DOMAIN tasks

----------------------------------------------------------------------------
(* Querysets: a row is <<project id, joined task id>> (0 when nothing is joined) *)

\* Project.objects.all()
objects_all == {<<p, 0>> : p \in DOMAIN projects}

\* the manager branch without its filter
filter_manager_all(user) == {<<p, 0>> : p \in DOMAIN projects}

\* Project.objects.filter(manager=user)
filter_manager(user) ==
    {<<p, 0>> : p \in {q \in DOMAIN projects : projects[q].manager = user.id}}

\* Project.objects.filter(tasks__assigned_to=user): one row per matching task
filter_tasks_assigned_to(user) ==
    {r \in (DOMAIN projects) \X (DOMAIN tasks) :
        tasks[r[2]].project = r[1] /\ tasks[r[2]].assigned_to = user.id}

\* the queryset without .distinct()
distinct_dropped(rows) == rows

\* .distinct(): SELECT DISTINCT over the project columns
distinct(rows) == {<<r[1], 0>> : r \in rows}

\* .order_by('created_at'): the ascending order
order_by_created_at_asc(rows) ==
    {s \in [1..Cardinality(rows) -> rows] :
        /\ \A i, j \in DOMAIN s : i # j => s[i] # s[j]
        /\ \A i, j \in DOMAIN s :
              i < j => projects[s[i][1]].created_at <= projects[s[j][1]].created_at}

\* .order_by('-created_at'): every order the database may return, ties in any order
order_by_created_at_desc(rows) ==
    {s \in [1..Cardinality(rows) -> rows] :
        /\ \A i, j \in DOMAIN s : i # j => s[i] # s[j]
        /\ \A i, j \in DOMAIN s :
              i < j => projects[s[i][1]].created_at >= projects[s[j][1]].created_at}

\* the project ids of an ordered queryset, as the template iterates them
listing(rows) == [i \in DOMAIN rows |-> rows[i][1]]

----------------------------------------------------------------------------
(* tasks/views.py: helpers of the handlers *)

\* @login_required: the redirect to LOGIN_URL for a caller without a session
login_required_redirect(view, method) ==
    [Resp0 EXCEPT !.view = view, !.method = method,
                  !.status = "redirect", !.target = "login"]

\* user_login without the admin-button test
admin_login_unchecked(user) == TRUE

\* user_login: the admin-button eligibility test
admin_login_allowed(user) ==
    user.is_staff \/ user.is_superuser \/ "Admin" \in user.groups

\* authenticate(request, username, password): the user's id, or None
authenticate(username, password_ok) ==
    IF username \in DOMAIN users /\ password_ok /\ users[username].is_active
    THEN username ELSE None

\* a permission gate that lets every caller through
gate_open(flags) == TRUE

\* create_project: the permission gate
may_create_project(flags) == flags.is_admin \/ flags.is_manager

\* create_task: the permission gate
may_create_task(flags) == flags.is_admin \/ flags.is_manager

\* create_project on GET without the pre-fill
initial_manager_never(flags, user) == None

\* create_project on GET: initial = {'manager': request.user} if is_manager
initial_manager(flags, user) == IF flags.is_manager THEN user.id ELSE None

\* ProjectForm(request.POST).is_valid(): name required, manager an existing user or blank
ProjectForm_is_valid(data) ==
    data.name # "" /\ (data.manager = None \/ data.manager \in DOMAIN users)

\* TaskForm(request.POST).is_valid(): title required, assigned_to an existing user or blank
TaskForm_is_valid(data) ==
    data.title # "" /\ (data.assigned_to = None \/ data.assigned_to \in DOMAIN users)

\* dashboard: the queryset chosen by role
dashboard_queryset(flags, user) ==
    IF flags.is_admin THEN objects_all
    ELSE IF flags.is_manager THEN filter_manager(user)
    ELSE distinct(filter_tasks_assigned_to(user))

\* dashboard: project_tasks = {project.id: project.tasks.all() for project in projects}
project_tasks_map(ps, user) == [p \in Range(ps) |-> project_tasks_all(p)]

----------------------------------------------------------------------------
(* taskmanager/settings.py *)

\* the literal fallback of os.environ.get('SECRET_KEY', ...)
DefaultSecretKey == "m-jcq5+63ptwwc1xufy00"

\* os.environ.get(name, default)
environ_get(env, name, default) ==
    IF name \in DOMAIN env THEN env[name] ELSE default

\* str.lower() on the values DEBUG is given
lower(s) ==
    CASE s = "True" -> "true"
      [] s = "TRUE" -> "true"
      [] s = "False" -> "false"
      [] OTHER -> s

\* str.split(','): a host list is a sequence of names and "," separators
RECURSIVE split_from(_, _, _)
split_from(s, i, word) ==
    IF i > Len(s) THEN <<word>>
    ELSE IF s[i] = "," THEN <<word>> \o split_from(s, i + 1, <<>>)
    ELSE split_from(s, i + 1, Append(word, s[i]))

split(s) == split_from(s, 1, <<>>)

\* the module's top-level assignments, evaluated on import
load_settings(env) ==
    LET debug == lower(environ_get(env, "DEBUG", "False")) = "true" IN
    [SECRET_KEY |-> environ_get(env, "SECRET_KEY", DefaultSecretKey),
     DEBUG |-> debug,
     ALLOWED_HOSTS |-> split(environ_get(env, "ALLOWED_HOSTS",
                                         <<"127.0.0.1", ",", "localhost">>)),
     DATABASE |-> IF env["dj_database_url"] /\ "DATABASE_URL" \in DOMAIN env
                  THEN env["DATABASE_URL"] ELSE "sqlite3",
     SECURE_SSL_REDIRECT |-> ~debug]

NoSettings ==
    [SECRET_KEY |-> "", DEBUG |-> FALSE, ALLOWED_HOSTS |-> <<>>,
     DATABASE |-> "", SECURE_SSL_REDIRECT |-> FALSE]

\* the environment of the deployment the handlers run in
DeployEnviron ==
    [SECRET_KEY |-> "k", DEBUG |-> "False", ALLOWED_HOSTS |-> <<"h">>,
     dj_database_url |-> FALSE]

\* the environments the process may be started in; dj_database_url tells
\* whether the optional import succeeded
Environs ==
    {a @@ b @@ c @@ d @@ e :
        a \in {<<>>, [SECRET_KEY |-> "k"]},
        b \in {<<>>} \cup {[DEBUG |-> v] : v \in {"True", "true", "TRUE", "False", "1"}},
        c \in {<<>>, [ALLOWED_HOSTS |-> <<"h">>], [ALLOWED_HOSTS |-> <<"h", ",", "g">>]},
        d \in {<<>>, [DATABASE_URL |-> "postgres"]},
        e \in {[dj_database_url |-> v] : v \in BOOLEAN}}

----------------------------------------------------------------------------
(* Initial state: the deployed application with its accounts and an empty store *)

Init ==
    /\ users = [u \in UserIds |-> SeedUser(u)]
    /\ session = None
    /\ projects = <<>>
    /\ tasks = <<>>
    /\ nextProjectId = 1
    /\ nextTaskId = 1
    /\ resp = Resp0
    /\ identity = AnonymousUser
    /\ environ = DeployEnviron
    /\ settings = load_settings(DeployEnviron)
    /\ phase = "serving"

Methods == {"GET", "POST"}
Actions == {"login", "admin"}
ProjectData == [name : {"", "p"}, manager : 0..MaxUsers]
TaskData == [title : {"", "t"}, assigned_to : 0..MaxUsers]

----------------------------------------------------------------------------
(* tasks/views.py: the handlers.  A request is handled to its response     *)
(* before the next one is taken up.                                        *)

\* the process is up and no response is pending
idle == phase = "serving" /\ resp = Resp0

\* the response goes out to the browser
send_response ==
    /\ phase = "serving"
    /\ resp # Resp0
    /\ resp' = Resp0
    /\ UNCHANGED <<session, store, identity, config>>

user_login(method, action, form_valid, username, password_ok) ==
    /\ idle
    /\ LET base == [Resp0 EXCEPT !.view = "user_login", !.method = method,
                                 !.status = "render", !.target = "login.html"]
       IN
       IF method = "POST"
       THEN IF form_valid
            THEN LET user == authenticate(username, password_ok) IN
                 IF user = None
                 THEN /\ resp' = [base EXCEPT !.msg = "Invalid username or password."]
                      /\ UNCHANGED session
                 ELSE IF action = "admin" /\ ~admin_login_allowed(users[user])
                 THEN /\ resp' = [base EXCEPT !.action = action, !.object = user,
                                      !.msg = "You are not allowed to login as admin."]
                      /\ UNCHANGED session
                 ELSE /\ session' = user
                      /\ resp' = [base EXCEPT !.action = action, !.object = user,
                                      !.status = "redirect", !.target = "dashboard",
                                      !.msg = "Welcome back"]
            ELSE /\ resp' = [base EXCEPT !.msg = "Please correct the errors below."]
                 /\ UNCHANGED session
       ELSE /\ resp' = base
            /\ UNCHANGED session
    /\ UNCHANGED <<store, identity, config>>

\* path('logout/', auth_views.LogoutView.as_view(next_page='login'))
logout ==
    /\ idle
    /\ session' = None
    /\ resp' = [Resp0 EXCEPT !.view = "logout",
                             !.status = "redirect", !.target = "login"]
    /\ UNCHANGED <<store, identity, config>>

dashboard ==
    /\ idle
    /\ LET user == request_user
           flags == get_user_flags(user)
       IN
       IF ~user.is_authenticated
       THEN resp' = login_required_redirect("dashboard", "GET")
       ELSE \E rows \in order_by_created_at_desc(dashboard_queryset(flags, user)) :
               resp' = [Resp0 EXCEPT !.view = "dashboard", !.method = "GET",
                                     !.user = user.id, !.flags = flags,
                                     !.status = "render", !.target = "dashboard.html",
                                     !.projects = listing(rows),
                                     !.project_tasks = project_tasks_map(listing(rows), user)]
    /\ UNCHANGED <<session, store, identity, config>>

project_detail(pk) ==
    /\ idle
    /\ LET user == request_user IN
       IF ~user.is_authenticated
       THEN resp' = login_required_redirect("project_detail", "GET")
       ELSE IF pk \notin DOMAIN projects
       THEN resp' = [Resp0 EXCEPT !.view = "project_detail", !.method = "GET",
                                  !.user = user.id, !.status = "404"]
       ELSE resp' = [Resp0 EXCEPT !.view = "project_detail", !.method = "GET",
                                  !.user = user.id, !.flags = get_user_flags(user),
                                  !.status = "render", !.target = "project_detail.html",
                                  !.object = pk,
                                  !.project_tasks = (pk :> project_tasks_all(pk))]
    /\ UNCHANGED <<session, store, identity, config>>

create_project(method, data) ==
    /\ idle
    /\ LET user == request_user
           flags == get_user_flags(user)
           base == [Resp0 EXCEPT !.view = "create_project", !.method = method,
                                 !.user = user.id]
       IN
       IF ~user.is_authenticated
       THEN /\ resp' = login_required_redirect("create_project", method)
            /\ UNCHANGED <<projects, nextProjectId>>
       ELSE IF ~may_create_project(flags)
       THEN /\ resp' = [base EXCEPT !.status = "redirect", !.target = "dashboard",
                            !.msg = "You don't have permission to create a project."]
            /\ UNCHANGED <<projects, nextProjectId>>
       ELSE IF method = "POST"
       THEN IF ProjectForm_is_valid(data)
            THEN /\ nextProjectId <= MaxProjects
                 /\ \E now \in 0..MaxClock :
                       projects' = projects @@
                           (nextProjectId :> Project(data.name, data.manager, now))
                 /\ nextProjectId' = nextProjectId + 1
                 /\ resp' = [base EXCEPT !.status = "redirect",
                                 !.target = "project_detail",
                                 !.object = nextProjectId,
                                 !.cleaned_manager = data.manager,
                                 !.msg = "Project created."]
            ELSE /\ resp' = [base EXCEPT !.status = "render",
                                 !.target = "create_project.html", !.flags = flags,
                                 !.msg = "Please fix the errors in the form."]
                 /\ UNCHANGED <<projects, nextProjectId>>
       ELSE /\ resp' = [base EXCEPT !.status = "render",
                            !.target = "create_project.html", !.flags = flags,
                            !.initial_manager = initial_manager(flags, user)]
            /\ UNCHANGED <<projects, nextProjectId>>
    /\ UNCHANGED <<session, users, tasks, nextTaskId, identity, config>>

create_task(pk, method, data) ==
    /\ idle
    /\ LET user == request_user
           flags == get_user_flags(user)
           base == [Resp0 EXCEPT !.view = "create_task", !.method = method,
                                 !.user = user.id, !.object = pk]
       IN
       IF ~user.is_authenticated
       THEN /\ resp' = login_required_redirect("create_task", method)
            /\ UNCHANGED <<tasks, nextTaskId>>
       ELSE IF pk \notin DOMAIN projects
       THEN /\ resp' = [base EXCEPT !.status = "404"]
            /\ UNCHANGED <<tasks, nextTaskId>>
       ELSE IF ~may_create_task(flags)
       THEN /\ resp' = [base EXCEPT !.status = "redirect", !.target = "project_detail",
                            !.msg = "You don't have permission to add a task."]
            /\ UNCHANGED <<tasks, nextTaskId>>
       ELSE IF method = "POST"
       THEN IF TaskForm_is_valid(data)
            THEN /\ nextTaskId <= MaxTasks
                 /\ tasks' = tasks @@
                       (nextTaskId :> Task(data.title, pk, data.assigned_to))
                 /\ nextTaskId' = nextTaskId + 1
                 /\ resp' = [base EXCEPT !.status = "redirect",
                                 !.target = "project_detail",
                                 !.msg = "Task created."]
            ELSE /\ resp' = [base EXCEPT !.status = "render",
                                 !.target = "create_task.html", !.flags = flags,
                                 !.msg = "Please fix the errors in the form."]
                 /\ UNCHANGED <<tasks, nextTaskId>>
       ELSE /\ resp' = [base EXCEPT !.status = "render",
                            !.target = "create_task.html", !.flags = flags]
            /\ UNCHANGED <<tasks, nextTaskId>>
    /\ UNCHANGED <<session, users, projects, nextProjectId, identity, config>>

----------------------------------------------------------------------------
(* Deletions, made through the back office (tasks/admin.py) under the      *)
(* on_delete policies of tasks/models.py                                   *)

delete_project(p) ==
    /\ idle
    /\ p \in DOMAIN projects
    /\ LET gone == cascade_tasks(p) IN
       /\ projects' = [q \in DOMAIN projects \ {p} |-> projects[q]]
       /\ tasks' = [t \in DOMAIN tasks \ gone |-> tasks[t]]
       /\ resp' = [Resp0 EXCEPT !.view = "delete_project", !.object = p,
                                !.affected = [projects |-> {p}, tasks |-> gone]]
    /\ UNCHANGED <<session, users, nextProjectId, nextTaskId, identity, config>>

delete_user(u) ==
    /\ idle
    /\ u \in DOMAIN users
    /\ users' = [v \in DOMAIN users \ {u} |-> users[v]]
    /\ projects' = [p \in DOMAIN projects |->
                      IF projects[p].manager = u
                      THEN [projects[p] EXCEPT !.manager = None] ELSE projects[p]]
    /\ tasks' = [t \in tasks_kept_on_user_delete(u) |->
                   IF tasks[t].assigned_to = u
                   THEN [tasks[t] EXCEPT !.assigned_to = None] ELSE tasks[t]]
    /\ resp' = [Resp0 EXCEPT !.view = "delete_user", !.object = u,
                   !.affected = [projects |-> {p \in DOMAIN projects :
                                                  projects[p].manager = u},
                                 tasks |-> {t \in DOMAIN tasks :
                                               tasks[t].assigned_to = u}]]
    /\ UNCHANGED <<session, nextProjectId, nextTaskId, identity, config>>

Next ==
    \/ \E method \in Methods, action \in Actions, form_valid \in BOOLEAN,
          username \in 0..MaxUsers, password_ok \in BOOLEAN :
          user_login(method, action, form_valid, username, password_ok)
    \/ logout
    \/ dashboard
    \/ \E pk \in 1..MaxProjects : project_detail(pk)
    \/ \E method \in Methods, data \in ProjectData : create_project(method, data)
    \/ \E pk \in 1..MaxProjects, method \in Methods, data \in TaskData :
          create_task(pk, method, data)
    \/ \E p \in 1..MaxProjects : delete_project(p)
    \/ \E u \in UserIds : delete_user(u)
    \/ send_response

Spec == Init /\ [][Next]_vars

----------------------------------------------------------------------------
(* get_user_flags applied to every identity *)

InitFlags ==
    /\ identity \in Identities
    /\ users = <<>>
    /\ session = None
    /\ projects = <<>>
    /\ tasks = <<>>
    /\ nextProjectId = 1
    /\ nextTaskId = 1
    /\ resp = Resp0
    /\ environ = DeployEnviron
    /\ settings = load_settings(DeployEnviron)
    /\ phase = "serving"

resolve_flags ==
    /\ idle
    /\ resp' = [Resp0 EXCEPT !.view = "get_user_flags",
                             !.flags = get_user_flags(identity)]
    /\ UNCHANGED <<session, store, identity, config>>

NextFlags == resolve_flags \/ send_response

SpecFlags == InitFlags /\ [][NextFlags]_vars

----------------------------------------------------------------------------
(* Start-up: the settings module is imported, then requests are served *)

InitStartup ==
    /\ environ \in Environs
    /\ settings = NoSettings
    /\ phase = "boot"
    /\ users = [u \in UserIds |-> SeedUser(u)]
    /\ session = None
    /\ projects = <<>>
    /\ tasks = <<>>
    /\ nextProjectId = 1
    /\ nextTaskId = 1
    /\ resp = Resp0
    /\ identity = AnonymousUser

\* importing taskmanager/settings.py: nothing in it raises
import_settings ==
    /\ phase = "boot"
    /\ settings' = load_settings(environ)
    /\ phase' = "serving"
    /\ UNCHANGED <<session, store, resp, identity, environ>>

NextStartup == import_settings \/ dashboard \/ send_response

SpecStartup == InitStartup /\ [][NextStartup]_vars

----------------------------------------------------------------------------
(* Roles of a stored user, stated from the user's own attributes *)

IsAdminUser(u) ==
    /\ u \in DOMAIN users
    /\ users[u].is_staff \/ users[u].is_superuser \/ "Admin" \in users[u].groups

IsManagerUser(u) == u \in DOMAIN users /\ "Manager" \in users[u].groups

IsPlainUser(u) == u \in DOMAIN users /\ ~IsAdminUser(u) /\ ~IsManagerUser(u)

DashboardShownTo(u) ==
    resp.view = "dashboard" /\ resp.status = "render" /\ resp.user = u

NoDuplicates(s) == Len(s) = Cardinality(Range(s))

----------------------------------------------------------------------------
(* Claims *)

\* C1: a create_task request (any method, any form data, any existing project)
\* by an authenticated caller who is neither admin nor manager ends in the
\* permission message and a redirect and leaves the Task table unchanged; a
\* create_project request by such a caller leaves the Project table unchanged.
NonPrivilegedCreateRejected ==
    [][/\ (/\ resp'.view = "create_task"
           /\ IsPlainUser(resp'.user)
           /\ resp'.object \in DOMAIN projects)
          => /\ resp'.status = "redirect"
             /\ resp'.msg = "You don't have permission to add a task."
             /\ tasks' = tasks
             /\ nextTaskId' = nextTaskId
       /\ (resp'.view = "create_project" /\ IsPlainUser(resp'.user))
          => /\ resp'.status = "redirect"
             /\ resp'.msg = "You don't have permission to create a project."
             /\ projects' = projects
             /\ nextProjectId' = nextProjectId]_vars

\* C1 witness: a plain user's POST to create_task for an existing project was refused
PlainUserTaskPostRefused ==
    /\ resp.view = "create_task"
    /\ resp.method = "POST"
    /\ IsPlainUser(resp.user)
    /\ resp.object \in DOMAIN projects
    /\ resp.msg = "You don't have permission to add a task."

\* C2: a login POST with action=admin and correct credentials of a user who is
\* not staff, not superuser and not in the Admin group re-renders the login
\* page with the permission message and leaves the session's identity as it was.
AdminLoginNeedsEligibility ==
    [][(/\ resp'.view = "user_login"
        /\ resp'.method = "POST"
        /\ resp'.action = "admin"
        /\ resp'.object # None
        /\ ~IsAdminUser(resp'.object))
       => /\ session' = session
          /\ resp'.status = "render"
          /\ resp'.target = "login.html"
          /\ resp'.msg = "You are not allowed to login as admin."]_vars

\* C2 witness: user 1 (plain) authenticated with the admin button while
\* another user held the session, and was turned away
AdminLoginRefused ==
    /\ resp.view = "user_login"
    /\ resp.action = "admin"
    /\ resp.object # None
    /\ ~IsAdminUser(resp.object)
    /\ resp.msg = "You are not allowed to login as admin."
    /\ session # None
    /\ session # resp.object

\* C3 as stated: when a manager-role caller creates a project without
\* supplying a manager field, the persisted Project's manager is the caller.
ManagerDefaultsToCaller ==
    (/\ resp.view = "create_project"
     /\ resp.msg = "Project created."
     /\ IsManagerUser(resp.user)
     /\ resp.cleaned_manager = None)
    => projects[resp.object].manager = resp.user

\* C3 amended: on GET by a manager-role caller the form's manager field is
\* pre-filled with the caller; on POST the persisted Project's manager is the
\* submitted manager field, and is empty when none was submitted.
ManagerPrefilledOnGetOnly ==
    /\ (/\ resp.view = "create_project"
        /\ resp.method = "GET"
        /\ IsManagerUser(resp.user))
       => /\ resp.status = "render"
          /\ resp.initial_manager = resp.user
    /\ (resp.view = "create_project" /\ resp.msg = "Project created.")
       => /\ resp.method = "POST"
          /\ projects[resp.object].manager = resp.cleaned_manager

\* C3 witness: a manager who is no admin posted a project without a manager
\* field and the stored project has no manager
ManagerPostedWithoutManagerField ==
    /\ resp.view = "create_project"
    /\ resp.msg = "Project created."
    /\ IsManagerUser(resp.user)
    /\ ~IsAdminUser(resp.user)
    /\ resp.cleaned_manager = None
    /\ projects[resp.object].manager = None

\* C4: get_user_flags yields {false, false} for an absent or unauthenticated
\* identity; for an authenticated one is_admin holds exactly for staff,
\* superuser or Admin-group members and is_manager exactly for Manager-group
\* members, so Manager membership alone never gives is_admin.
FlagsFollowIdentity ==
    resp.view = "get_user_flags" =>
        IF identity = NoUser \/ ~identity.is_authenticated
        THEN ~resp.flags.is_admin /\ ~resp.flags.is_manager
        ELSE /\ resp.flags.is_admin <=>
                   (identity.is_staff \/ identity.is_superuser
                       \/ "Admin" \in identity.groups)
             /\ resp.flags.is_manager <=> ("Manager" \in identity.groups)
             /\ (~identity.is_staff /\ ~identity.is_superuser
                     /\ identity.groups = {"Manager"})
                => ~resp.flags.is_admin

\* C4 witness: the flags of an identity whose only group is Manager
ManagerOnlyResolved ==
    /\ resp.view = "get_user_flags"
    /\ identity # NoUser
    /\ identity.is_authenticated
    /\ ~identity.is_staff
    /\ ~identity.is_superuser
    /\ identity.groups = {"Manager"}
    /\ resp.flags = [is_admin |-> FALSE, is_manager |-> TRUE]

\* C5: the dashboard of a plain user lists exactly the projects holding at
\* least one task assigned to the caller, each once.
PlainUserDashboard ==
    \A u \in DOMAIN users :
        (DashboardShownTo(u) /\ IsPlainUser(u)) =>
            /\ Range(resp.projects) =
                  {p \in DOMAIN projects :
                      \E t \in DOMAIN tasks :
                          tasks[t].project = p /\ tasks[t].assigned_to = u}
            /\ NoDuplicates(resp.projects)

\* C5 witness: a plain user's dashboard lists once a project in which two
\* tasks are assigned to the caller, and leaves out another project
PlainUserSeesProjectOnce ==
    \E u \in DOMAIN users :
        /\ DashboardShownTo(u)
        /\ IsPlainUser(u)
        /\ Len(resp.projects) = 1
        /\ Cardinality({t \in DOMAIN tasks :
               tasks[t].project = resp.projects[1] /\ tasks[t].assigned_to = u}) = 2
        /\ Cardinality(DOMAIN projects) = 2

\* C6 as stated: the dashboard of any member of the Manager group lists
\* exactly the projects whose manager is the caller.
ManagerGroupDashboard ==
    \A u \in DOMAIN users :
        (DashboardShownTo(u) /\ IsManagerUser(u)) =>
            /\ Range(resp.projects) =
                  {p \in DOMAIN projects : projects[p].manager = u}
            /\ NoDuplicates(resp.projects)

\* C6 amended: the dashboard of a member of the Manager group who is not
\* is_admin lists exactly the projects whose manager is the caller.
ManagerDashboard ==
    \A u \in DOMAIN users :
        (DashboardShownTo(u) /\ IsManagerUser(u) /\ ~IsAdminUser(u)) =>
            /\ Range(resp.projects) =
                  {p \in DOMAIN projects : projects[p].manager = u}
            /\ NoDuplicates(resp.projects)

\* C6 witness: a manager's dashboard lists the project the caller manages and
\* leaves out a project of another manager in which the caller has a task
ManagerSeesOwnProjectsOnly ==
    \E u \in DOMAIN users :
        /\ DashboardShownTo(u)
        /\ IsManagerUser(u)
        /\ ~IsAdminUser(u)
        /\ Len(resp.projects) = 1
        /\ \E p \in DOMAIN projects, t \in DOMAIN tasks :
              /\ projects[p].manager \notin {u, None}
              /\ tasks[t].project = p
              /\ tasks[t].assigned_to = u

\* C7: the dashboard of an admin lists every project of the store, in
\* descending created_at order, each with all of its tasks.
AdminDashboard ==
    \A u \in DOMAIN users :
        (DashboardShownTo(u) /\ IsAdminUser(u)) =>
            /\ Range(resp.projects) = DOMAIN projects
            /\ NoDuplicates(resp.projects)
            /\ \A i, j \in DOMAIN resp.projects :
                  i < j => projects[resp.projects[i]].created_at
                              >= projects[resp.projects[j]].created_at
            /\ DOMAIN resp.project_tasks = DOMAIN projects
            /\ \A p \in DOMAIN projects :
                  resp.project_tasks[p] = {t \in DOMAIN tasks : tasks[t].project = p}

\* C7 witness: an admin's dashboard lists the later-created project 1 first,
\* and pairs a project with a task assigned to somebody else
AdminSeesNewestFirst ==
    \E u \in DOMAIN users :
        /\ DashboardShownTo(u)
        /\ IsAdminUser(u)
        /\ resp.projects = <<1, 2>>
        /\ projects[1].created_at > projects[2].created_at
        /\ \E t \in resp.project_tasks[2] : tasks[t].assigned_to \notin {u, None}

\* C8: every Task references a Project of the store; deleting a Project
\* deletes the tasks referencing it and leaves every other task as it was.
NoOrphanTasks ==
    /\ [](\A t \in DOMAIN tasks : tasks[t].project \in DOMAIN projects)
    /\ [][\A p \in DOMAIN projects \ DOMAIN projects' :
             \A t \in DOMAIN tasks :
                IF tasks[t].project = p
                THEN t \notin DOMAIN tasks'
                ELSE t \in DOMAIN tasks' /\ tasks'[t] = tasks[t]]_vars

\* C8 witness: a project was deleted together with a task of its own while a
\* task of another project remains
ProjectDeletedWithItsTasks ==
    /\ resp.view = "delete_project"
    /\ resp.affected.tasks # {}
    /\ resp.affected.tasks \cap DOMAIN tasks = {}
    /\ DOMAIN tasks # {}

\* C9: deleting a user deletes no Task and no Project: the tasks assigned to
\* the user stay with assigned_to cleared and every other field unchanged, and
\* the projects managed by the user stay with manager cleared.
UserDeletionKeepsRecords ==
    [][\A u \in DOMAIN users \ DOMAIN users' :
          /\ DOMAIN tasks' = DOMAIN tasks
          /\ DOMAIN projects' = DOMAIN projects
          /\ \A t \in DOMAIN tasks :
                tasks'[t] = [tasks[t] EXCEPT
                                !.assigned_to = IF @ = u THEN None ELSE @]
          /\ \A p \in DOMAIN projects :
                projects'[p] = [projects[p] EXCEPT
                                   !.manager = IF @ = u THEN None ELSE @]]_vars

\* C9 witness: a user who was assigned a task and managed a project was
\* deleted, and both records are still there with the reference cleared
UserDeletedRecordsKept ==
    /\ resp.view = "delete_user"
    /\ resp.affected.tasks # {}
    /\ resp.affected.projects # {}
    /\ \A t \in resp.affected.tasks :
          t \in DOMAIN tasks /\ tasks[t].assigned_to = None
    /\ \A p \in resp.affected.projects :
          p \in DOMAIN projects /\ projects[p].manager = None

====
